---- MODULE Spec2Model ----
(***************************************************************************)
(* The retrying HTTP client layer (NPPESClient, PracticeFusionClient) and  *)
(* the tool bodies built on it (_verify_provider_async,                    *)
(* _create_patient_async, _schedule_appointment_async) of App/tools.py.    *)
(*                                                                         *)
(* One call is in progress at a time: either a client operation called     *)
(* directly, or a tool body that calls client operations.  The remote      *)
(* servers are adversarial: every response is chosen nondeterministically. *)
(* A step of the model is the code between two awaits: sending a request,  *)
(* handling its response, sleeping, and the synchronous unwinding of a     *)
(* finished retry loop into the operation and the tool that called it.     *)
(***************************************************************************)
EXTENDS Integers, Sequences, FiniteSets, TLC

\* ------------------------------------------------------------- constants

\* config.py
NPPES_MAX_RETRIES == 3
PRACTICE_FUSION_MAX_RETRIES == 3

\* Bounds of the model.  The code looks 14 days ahead (range(1, 15)) and
\* proposes the hours 9..16 (range(9, 17)); the model keeps the same loops
\* over a shorter horizon.
LookAheadDays == 3
LastSlotHour == 10
\* Cap of the per-endpoint request counter: Send is disabled at the cap.  The
\* code's loops stop at max_retries, below it.
MaxSent == 4

FirstSlotHour == 9
EasternUtcOffset == 5

\* ------------------------------------------------------------ operations

PFOps ==
  {"create_patient", "get_users", "get_facilities",
   "check_calendar_availability", "create_appointment"}

ClientOps == {"search_providers", "get_access_token"} \cup PFOps

Tools == {"verify_provider", "create_patient", "schedule_appointment"}

\* The URL a client operation's retry loop sends its requests to.
Endpoint(o) ==
  CASE o = "search_providers" -> "nppes"
    [] o = "get_access_token" -> "oauth2/token"
    [] o = "create_patient" -> "v4/patients"
    [] o = "get_users" -> "v2/users"
    [] o = "get_facilities" -> "v2/facilities"
    [] o = "check_calendar_availability" -> "v1/calendar/events/query"
    [] o = "create_appointment" -> "v1/calendar/events"

Endpoints == {Endpoint(o) : o \in ClientOps}

\* self.max_retries of the client the operation belongs to.
MaxRetries(o) ==
  IF o = "search_providers" THEN NPPES_MAX_RETRIES ELSE PRACTICE_FUSION_MAX_RETRIES

\* The exception class the operation's docstring declares.
ErrorType(o) ==
  IF o = "search_providers" THEN "ProviderVerificationError" ELSE "PracticeFusionError"

StatusErrorMsg(o) ==
  CASE o = "search_providers" -> "NPPES API error"
    [] o = "get_access_token" -> "Token API error"
    [] o = "create_patient" -> "Patient creation API error"
    [] o = "get_users" -> "Users API error"
    [] o = "get_facilities" -> "Facilities API error"
    [] o = "check_calendar_availability" -> "Calendar API error"
    [] o = "create_appointment" -> "Appointment creation API error"

ConnectErrorMsg(o) ==
  IF o = "search_providers"
  THEN "Unable to connect to NPPES API"
  ELSE "Unable to connect to Practice Fusion API"

ExhaustedMsg(o) ==
  CASE o = "search_providers" -> "Max retries exceeded"
    [] o = "get_access_token" -> "Max retries exceeded for token refresh"
    [] o = "create_patient" -> "Max retries exceeded for patient creation"
    [] o = "get_users" -> "Max retries exceeded for users fetch"
    [] o = "get_facilities" -> "Max retries exceeded for facilities fetch"
    [] o = "check_calendar_availability" -> "Max retries exceeded for calendar query"
    [] o = "create_appointment" -> "Max retries exceeded for appointment creation"

\* ------------------------------------------------------- values, errors

NoExc == [type |-> "none", msg |-> "", status |-> 0]

Exc(t, m, s) == [type |-> t, msg |-> m, status |-> s]

NoValue == [kind |-> "none", token |-> 0, events |-> <<>>]

BodyValue == [kind |-> "body", token |-> 0, events |-> <<>>]

TokenValue(t) == [kind |-> "token", token |-> t, events |-> <<>>]

CalendarValue(evs) == [kind |-> "calendar", token |-> 0, events |-> evs]

\* What a finished retry loop, or a finished operation, hands to its caller.
NoResult == [kind |-> "none", value |-> NoValue, exc |-> NoExc]

Returned(v) == [kind |-> "returned", value |-> v, exc |-> NoExc]

Raised(e) == [kind |-> "raised", value |-> NoValue, exc |-> e]

\* ------------------------------------------------------ server outcomes

ErrorStatuses == {404, 500}

\* A calendar event of a query response: startDateTimeUtc (a UTC hour), the
\* three fields of its duration "HH:MM:SS", isCancelled, and whether it has
\* a parseable startDateTimeUtc.
TimedEvent(s, h, m, sec, c, w) ==
  [start |-> s, hours |-> h, minutes |-> m, seconds |-> sec, cancelled |-> c,
   wellFormed |-> w]

\* An event that lasts whole hours.
Event(s, h, c, w) == TimedEvent(s, h, 0, 0, c, w)

\* The event lists the calendar server may answer for the slot starting at
\* UTC hour s: nothing, a booking of the slot, a cancelled booking, bookings
\* that touch the slot on either side, one that runs into it, a malformed
\* event, two-event lists, a half-hour event that ends before the slot,
\* and an event whose last thirty seconds lie in the slot.
CalendarResponses(s) ==
  { <<>>,
    <<TimedEvent(s - 1, 0, 30, 0, FALSE, TRUE)>>,
    <<TimedEvent(s - 1, 1, 0, 30, FALSE, TRUE)>>,
    <<Event(s, 1, FALSE, TRUE)>>,
    <<Event(s, 1, TRUE, TRUE)>>,
    <<Event(s - 1, 1, FALSE, TRUE)>>,
    <<Event(s + 1, 1, FALSE, TRUE)>>,
    <<Event(s - 1, 2, FALSE, TRUE)>>,
    <<Event(s, 1, FALSE, FALSE)>>,
    <<Event(s, 1, TRUE, FALSE)>>,
    <<Event(s, 1, TRUE, TRUE), Event(s - 1, 1, FALSE, TRUE)>>,
    <<Event(s, 1, FALSE, TRUE), Event(s, 1, FALSE, FALSE)>> }

Outcome(k, st, evs) == [kind |-> k, status |-> st, events |-> evs]

\* Everything the server of operation o can do with one request:
\*   ok           2xx with a JSON object (for the calendar query: with events)
\*   no_token     2xx with a JSON object that has no access_token
\*   bad_body     2xx whose body is not JSON (response.json() raises)
\*   rate_limited HTTP 429
\*   http_error   another error status
\*   conn_error   httpx.RequestError (no connection, timeout)
Outcomes(o, s) ==
  (IF o = "check_calendar_availability"
   THEN {Outcome("ok", 200, evs) : evs \in CalendarResponses(s)}
   ELSE {Outcome("ok", 200, <<>>)})
  \cup (IF o = "get_access_token" THEN {Outcome("no_token", 200, <<>>)} ELSE {})
  \cup {Outcome("bad_body", 200, <<>>),
        Outcome("rate_limited", 429, <<>>),
        Outcome("conn_error", 0, <<>>)}
  \cup {Outcome("http_error", st, <<>>) : st \in ErrorStatuses}

\* ------------------------------------------------------ the retry loop

\* Step of a loop body: what happens after a response.
SleepStep(w) == [next |-> "sleep", wait |-> w, result |-> NoResult]

ExitStep(r) == [next |-> "exit", wait |-> 0, result |-> r]

\* Variant: the linear backoff of the RequestError branch used for 429 too.
RateLimitWaitLinear(attempt) == attempt + 1

\* wait_time = 2 ** attempt  (HTTP 429 branch)
RateLimitWait(attempt) == 2 ^ attempt

\* wait_time = 1 * (attempt + 1)  (RequestError branch)
ConnWait(attempt) == 1 * (attempt + 1)

\* Variant: the last attempt compared with max_retries instead of
\* max_retries - 1.
IsLastAttemptOffByOne(o, attempt) == attempt = MaxRetries(o)

\* if attempt == self.max_retries - 1
IsLastAttempt(o, attempt) == attempt = MaxRetries(o) - 1

\* Variant: a loop that goes round again without advancing attempt.
RangeStuck(attempt) == attempt

\* for attempt in range(self.max_retries): the index of the next iteration
RangeNext(attempt) == attempt + 1

\* The try body after raise_for_status() passed, for a 2xx response.
\* seq identifies the token a successful refresh returns.
OnSuccess(o, out, seq) ==
  CASE out.kind = "bad_body" ->
         Raised(Exc("JSONDecodeError", "Expecting value", 0))
    [] out.kind = "no_token" ->
         Raised(Exc("PracticeFusionError", "No access token in response", 0))
    [] out.kind = "ok" /\ o = "get_access_token" -> Returned(TokenValue(seq))
    [] out.kind = "ok" /\ o = "check_calendar_availability" ->
         Returned(CalendarValue(out.events))
    [] OTHER -> Returned(BodyValue)

\* Variant: every error status treated like a 429.
OnStatusErrorRetryAll(o, attempt, out) == SleepStep(RateLimitWait(attempt))

\* except httpx.HTTPStatusError
OnStatusError(o, attempt, out) ==
  IF out.status = 429
  THEN SleepStep(RateLimitWait(attempt))
  ELSE ExitStep(Raised(Exc(ErrorType(o), StatusErrorMsg(o), out.status)))

\* except httpx.RequestError
OnRequestError(o, attempt) ==
  IF IsLastAttempt(o, attempt)
  THEN ExitStep(Raised(Exc(ErrorType(o), ConnectErrorMsg(o), 0)))
  ELSE SleepStep(ConnWait(attempt))

\* One iteration of the retry loop of operation o, from the response on.
HandleResponse(o, attempt, out, seq) ==
  CASE out.kind \in {"rate_limited", "http_error"} -> OnStatusError(o, attempt, out)
    [] out.kind = "conn_error" -> OnRequestError(o, attempt)
    [] OTHER -> ExitStep(OnSuccess(o, out, seq))

\* raise ...Error("Max retries exceeded ...") after the loop
Exhausted(o) == Raised(Exc(ErrorType(o), ExhaustedMsg(o), 0))

\* Variant: an operation without the outer try/except.
WrapNone(o, e) == e

\* The outer try/except of the Practice Fusion operations:
\*   except PracticeFusionError: raise
\*   except Exception as e: raise PracticeFusionError(f"Unexpected error: {e}")
\* search_providers and get_access_token have no outer handler.
Wrap(o, e) ==
  IF o \in PFOps /\ e.type # "PracticeFusionError"
  THEN Exc("PracticeFusionError", "Unexpected error", 0)
  ELSE e

\* Variant: get_users without its token refresh.
NeedsTokenForgotten(o) == o \in PFOps \ {"get_users"}

\* access_token = await self.get_access_token() opens every Practice Fusion
\* operation except get_access_token itself.
NeedsToken(o) == o \in PFOps

\* ---------------------------------------------------------------- tools

ArgNames ==
  {"first_name", "last_name", "sex", "birth_date",
   "patient_name", "patient_dob", "patient_phone", "patient_practice_guid"}

RequiredArgs(t) ==
  CASE t = "verify_provider" -> {"first_name", "last_name"}
    [] t = "create_patient" -> {"first_name", "last_name", "sex", "birth_date"}
    [] t = "schedule_appointment" ->
         {"patient_name", "patient_dob", "patient_phone", "patient_practice_guid"}
    [] OTHER -> {}

ArgValues == {"", "Ann"}

NoArgs == [n \in ArgNames |-> "n/a"]

\* The argument tuples of a call of tool t.
ArgsOf(t) ==
  {[n \in ArgNames |-> IF n \in RequiredArgs(t) THEN f[n] ELSE "n/a"] :
     f \in [RequiredArgs(t) -> ArgValues]}

\* Variant: 'and' in place of 'or' in the validation.
MissingRequiredAll(t, a) == \A n \in RequiredArgs(t) : a[n] = ""

\* if not first_name or not last_name ...
MissingRequired(t, a) == \E n \in RequiredArgs(t) : a[n] = ""

RequiredMsg(t) ==
  CASE t = "verify_provider" -> "Both first name and last name are required"
    [] t = "create_patient" ->
         "First name, last name, sex, and birth date are required"
    [] t = "schedule_appointment" ->
         "Patient name, date of birth, phone number, and patient practice GUID are required"

\* What a tool body hands back: a dict (its keys, its 'success' and its
\* 'error' text, as the pieces it is formatted from) or an exception.
NoReturn == [kind |-> "none", keys |-> {}, success |-> FALSE, error |-> <<>>, exc |-> "none"]

Dict(s, k, e) == [kind |-> "returned", keys |-> k, success |-> s, error |-> e, exc |-> "none"]

ToolRaised(t) == [kind |-> "raised", keys |-> {}, success |-> FALSE, error |-> <<>>, exc |-> t]

ErrorDict(e) == Dict(FALSE, {"success", "error"}, e)

SuccessDict(t) ==
  CASE t = "verify_provider" ->
         Dict(TRUE, {"success", "result_count", "providers", "search_criteria"}, <<>>)
    [] t = "create_patient" ->
         Dict(TRUE, {"success", "patient_created", "patient_mrn", "patient_practice_guid",
                     "practice_guid", "patient_name", "birth_date", "sex", "is_active",
                     "email_address", "mobile_phone", "creation_status"}, <<>>)
    [] t = "schedule_appointment" ->
         Dict(TRUE, {"success", "appointment_scheduled", "appointment_id", "patient_name",
                     "patient_dob", "patient_phone", "patient_practice_guid",
                     "appointment_date", "appointment_time", "duration", "location",
                     "facility_address", "confirmation_number", "instructions",
                     "contact", "status", "provider", "appointment_type",
                     "is_cancelled"}, <<>>)

DeclaredError(t) ==
  IF t = "verify_provider" THEN "ProviderVerificationError" ELSE "PracticeFusionError"

ApiErrorText(t, e) ==
  CASE t = "verify_provider" -> <<e.msg>>
    [] t = "create_patient" -> <<"Practice Fusion API error", e.msg>>
    [] t = "schedule_appointment" -> <<"Appointment scheduling API error", e.msg>>

UnexpectedText(t) ==
  CASE t = "verify_provider" ->
         <<"An unexpected error occurred during provider verification">>
    [] t = "create_patient" ->
         <<"An unexpected error occurred during patient creation">>
    [] t = "schedule_appointment" ->
         <<"An unexpected error occurred during appointment scheduling">>

\* Variant: a tool body without the final except Exception.
ToolCatchDeclaredOnly(t, e) ==
  IF e.type = DeclaredError(t) THEN ErrorDict(ApiErrorText(t, e)) ELSE ToolRaised(e.type)

\* The except clauses that close every tool body.
ToolCatch(t, e) ==
  IF e.type = DeclaredError(t)
  THEN ErrorDict(ApiErrorText(t, e))
  ELSE ErrorDict(UnexpectedText(t))

\* The first client operation a tool body awaits.
FirstOp(t) ==
  CASE t = "verify_provider" -> "search_providers"
    [] t = "create_patient" -> "create_patient"
    [] t = "schedule_appointment" -> "check_calendar_availability"

\* ------------------------------------------------------ candidate slots

\* candidate_date.weekday() of today + timedelta(days=d); Monday = 0
Weekday(t, d) == (t + d) % 7

\* Eastern Daylight Time, the other offset of pytz's America/New_York.
DaylightUtcOffset == EasternUtcOffset - 1

\* The time zone data of a run: whether pytz is installed, the hours Eastern
\* time is behind UTC now, and the day ahead of today (0: none within the
\* look-ahead) on which Eastern time changes between standard and daylight
\* time.
TzData(p, o, c) == [pytz |-> p, now |-> o, change |-> c]

StandardTime == TzData(TRUE, EasternUtcOffset, 0)

\* The runs there are when today is weekday t; the time changes on a Sunday.
TzRuns(t) ==
  {TzData(p, o, c) :
     p \in BOOLEAN, o \in {EasternUtcOffset, DaylightUtcOffset},
     c \in {0} \cup {d \in 1..LookAheadDays : Weekday(t, d) = 6}}

\* The one run of a day in standard time with pytz installed.
StandardRuns(t) == {StandardTime}

\* utcoffset() of today = datetime.now(eastern), which today + timedelta and
\* replace(hour=...) hand on to every slot_time: pytz's offset of the
\* moment, or the fallback's fixed -5 hours.
TzOffset(z) == IF z.pytz THEN z.now ELSE EasternUtcOffset

\* The hours Eastern time is behind UTC at UTC hour u (counted from today's
\* midnight): the time changes at 2:00 local time of its day.
EasternOffsetAt(z, u) ==
  IF z.change # 0 /\ u >= (z.change * 24) + 2 + z.now
  THEN (IF z.now = EasternUtcOffset THEN DaylightUtcOffset ELSE EasternUtcOffset)
  ELSE z.now

\* The Eastern wall-clock hour (counted from today's midnight) of UTC hour u.
EasternTime(z, u) == u - EasternOffsetAt(z, u)

\* A slot: days ahead of today, the hour slot_time carries, and its UTC hour
\* counted from today's local midnight (slot_time.astimezone(utc)) under
\* slot_time's offset off.
Slot(d, h, off) == [day |-> d, hour |-> h, utc |-> (d * 24) + h + off]

HoursPerDay == LastSlotHour - FirstSlotHour + 1

\* Every (day, hour) of the two nested loops, in loop order.
AllSlots(off) ==
  [k \in 1..(LookAheadDays * HoursPerDay) |->
     Slot(1 + ((k - 1) \div HoursPerDay), FirstSlotHour + ((k - 1) % HoursPerDay),
          off)]

\* if candidate_date.weekday() >= 5: continue
IsWeekend(t, d) == Weekday(t, d) >= 5

\* available_slots as the loops build it when today is weekday t in run z
AvailableSlots(t, z) ==
  SelectSeq(AllSlots(TzOffset(z)), LAMBDA s : ~IsWeekend(t, s.day))

\* Seconds of h hours.
Secs(h) == h * 3600

\* event_end_utc: event_start_utc + timedelta(hours=int(parts[0]),
\* minutes=int(parts[1])), in seconds; parts[2] is not read.
EventEndUtc(e) == Secs(e.start) + Secs(e.hours) + (e.minutes * 60)

\* Variant: no event ever overlaps a slot.
OverlapsNever(s, e) == FALSE

\* slot['utc_time'] < event_end_utc and slot_end_utc > event_start_utc
Overlaps(s, e) == Secs(s) < EventEndUtc(e) /\ Secs(s + 1) > Secs(e.start)

\* appointment_data of the slot: startDateTimeUtc, startDateTimeFlt (both in
\* hours from today's local midnight) and the hours of "duration".
AppointmentData(slot) ==
  [startDateTimeUtc |-> slot.utc, startDateTimeFlt |-> (slot.day * 24) + slot.hour,
   duration |-> 1]

NoAppointment == [startDateTimeUtc |-> 0, startDateTimeFlt |-> 0, duration |-> 0]

\* The loop over existing_events for the slot at UTC hour s: "conflict",
\* "free", or "error" when event['startDateTimeUtc'] cannot be read.
RECURSIVE SlotConflicts(_, _)
SlotConflicts(evs, s) ==
  IF evs = <<>> THEN "free"
  ELSE LET e == Head(evs) IN
       IF e.cancelled THEN SlotConflicts(Tail(evs), s)
       ELSE IF ~e.wellFormed THEN "error"
       ELSE IF Overlaps(s, e) THEN "conflict"
       ELSE SlotConflicts(Tail(evs), s)

\* --------------------------------------------------------------- strings
\* A Python str is the sequence of its characters.

UpperCase ==
  <<"A", "B", "C", "D", "E", "F", "G", "H", "I", "J", "K", "L", "M", "N", "O", "P", "Q",
    "R", "S", "T", "U", "V", "W", "X", "Y", "Z">>

LowerCase ==
  <<"a", "b", "c", "d", "e", "f", "g", "h", "i", "j", "k", "l", "m", "n", "o", "p", "q",
    "r", "s", "t", "u", "v", "w", "x", "y", "z">>

\* str.lower() of one character
LowerChar(c) ==
  IF \E i \in DOMAIN UpperCase : UpperCase[i] = c
  THEN LowerCase[CHOOSE i \in DOMAIN UpperCase : UpperCase[i] = c]
  ELSE c

\* str.lower()
Lower(s) == [i \in 1..Len(s) |-> LowerChar(s[i])]

\* str.strip()
RECURSIVE Strip(_)
Strip(s) ==
  IF s # <<>> /\ Head(s) = " " THEN Strip(Tail(s))
  ELSE IF s # <<>> /\ s[Len(s)] = " " THEN Strip(SubSeq(s, 1, Len(s) - 1))
  ELSE s

\* sub in s
Contains(sub, s) ==
  \E i \in 0..(Len(s) - Len(sub)) : SubSeq(s, i + 1, i + Len(sub)) = sub

\* any(x in s for x in words)
AnyIn(words, s) == \E i \in DOMAIN words : Contains(words[i], s)

\* ------------------------------------------- verify_insurance_coverage

accepted_insurers ==
  << <<"u", "n", "i", "t", "e", "d", " ", "h", "e", "a", "l", "t", "h", "c", "a", "r", "e">>,
     <<"u", "n", "i", "t", "e", "d">>,
     <<"a", "e", "t", "n", "a">>,
     <<"c", "i", "g", "n", "a">>,
     <<"b", "l", "u", "e", " ", "c", "r", "o", "s", "s", " ", "b", "l", "u", "e", " ", "s",
       "h", "i", "e", "l", "d">>,
     <<"b", "c", "b", "s">>,
     <<"k", "a", "i", "s", "e", "r">> >>

is_accepted(insurance_provider) ==
  LET provider_lower == Strip(Lower(insurance_provider))
  IN  AnyIn(accepted_insurers, provider_lower)

\* The dict verify_insurance_coverage returns as JSON.
verify_insurance_coverage(insurance_provider, patient_name, member_id) ==
  IF is_accepted(insurance_provider)
  THEN [success |-> TRUE,
        insurance_accepted |-> TRUE,
        insurance_provider |-> insurance_provider,
        patient_name |-> patient_name,
        member_id |-> member_id,
        verification_status |-> "Coverage verified - insurance accepted",
        next_step |-> "Proceed to clinical validation"]
  ELSE [success |-> TRUE,
        insurance_accepted |-> FALSE,
        insurance_provider |-> insurance_provider,
        patient_name |-> patient_name,
        member_id |-> member_id,
        verification_status |-> "Insurance not accepted",
        accepted_insurers |-> "United Healthcare, Aetna, Cigna, BCBS, Kaiser",
        recommendation |-> "Contact Dr. Reed's office for self-pay options"]

\* The insurers the clinic accepts.
AcceptedInsurers ==
  {"United Healthcare", "Aetna", "Cigna", "Blue Cross Blue Shield", "Kaiser"}

\* An insurance_provider argument: its text, and the insurer it names.
Provider(text, insurer) == [text |-> text, insurer |-> insurer]

Providers ==
  { Provider(<<"U", "n", "i", "t", "e", "d", " ", "H", "e", "a", "l", "t", "h", "c", "a",
               "r", "e">>, "United Healthcare"),
    Provider(<<"U", "n", "i", "t", "e", "d", "H", "e", "a", "l", "t", "h", "c", "a", "r",
               "e">>, "United Healthcare"),
    Provider(<<" ", "a", "e", "t", "n", "a", " ">>, "Aetna"),
    Provider(<<"C", "I", "G", "N", "A">>, "Cigna"),
    Provider(<<"B", "l", "u", "e", " ", "C", "r", "o", "s", "s", " ", "B", "l", "u", "e",
               " ", "S", "h", "i", "e", "l", "d">>, "Blue Cross Blue Shield"),
    Provider(<<"B", "C", "B", "S">>, "Blue Cross Blue Shield"),
    Provider(<<"K", "a", "i", "s", "e", "r", " ", "P", "e", "r", "m", "a", "n", "e", "n",
               "t", "e">>, "Kaiser"),
    Provider(<<"H", "u", "m", "a", "n", "a">>, "Humana"),
    Provider(<<"M", "e", "d", "i", "c", "a", "r", "e">>, "Medicare"),
    Provider(<<"U", "n", "i", "t", "e", "d", " ", "A", "m", "e", "r", "i", "c", "a",
               "n">>, "United American"),
    Provider(<<>>, "none") }

MemberIds == {"None", "M1"}

\* ------------------------------------------- validate_clinical_criteria

valid_reasons ==
  << <<"c", "h", "e", "s", "t", " ", "p", "a", "i", "n">>,
     <<"i", "s", "c", "h", "e", "m", "i", "a">>,
     <<"s", "t", "r", "e", "s", "s", " ", "t", "e", "s", "t">>,
     <<"a", "r", "r", "h", "y", "t", "h", "m", "i", "a">>,
     <<"h", "e", "a", "r", "t", " ", "f", "a", "i", "l", "u", "r", "e">>,
     <<"c", "a", "r", "d", "i", "o", "m", "y", "o", "p", "a", "t", "h", "y">>,
     <<"v", "a", "l", "v", "u", "l", "a", "r">>,
     <<"s", "y", "n", "c", "o", "p", "e">>,
     <<"h", "y", "p", "e", "r", "t", "e", "n", "s", "i", "o", "n">>,
     <<"c", "o", "n", "g", "e", "n", "i", "t", "a", "l">>,
     <<"p", "u", "l", "m", "o", "n", "a", "r", "y", " ", "h", "y", "p", "e", "r", "t", "e",
       "n", "s", "i", "o", "n">>,
     <<"c", "a", "r", "d", "i", "a", "c">>,
     <<"h", "e", "a", "r", "t">> >>

is_valid_reason(referral_reason) == AnyIn(valid_reasons, Lower(referral_reason))

has_documentation(documentation_available) ==
  \/ Contains(<<"e", "c", "g">>, Lower(documentation_available))
  \/ Contains(<<"e", "k", "g">>, Lower(documentation_available))
  \/ Contains(<<"e", "c", "h", "o">>, Lower(documentation_available))
  \/ Contains(<<"a", "v", "a", "i", "l", "a", "b", "l", "e">>, Lower(documentation_available))

\* The dict validate_clinical_criteria returns as JSON.
validate_clinical_criteria(referral_reason, patient_name, documentation_available) ==
  IF is_valid_reason(referral_reason) /\ has_documentation(documentation_available)
  THEN [success |-> TRUE,
        clinical_criteria_met |-> TRUE,
        referral_reason |-> referral_reason,
        patient_name |-> patient_name,
        documentation_status |-> "Adequate documentation provided",
        validation_status |-> "Clinical criteria met - approved for scheduling",
        next_step |-> "Proceed to appointment scheduling"]
  ELSE IF is_valid_reason(referral_reason)
            /\ ~has_documentation(documentation_available)
  THEN [success |-> TRUE,
        clinical_criteria_met |-> FALSE,
        referral_reason |-> referral_reason,
        patient_name |-> patient_name,
        documentation_status |-> "Missing required documentation",
        required_docs |-> "ECG, recent echocardiogram (if performed), relevant labs, medication list, primary care summary",
        recommendation |-> "Please provide required documentation before scheduling"]
  ELSE [success |-> TRUE,
        clinical_criteria_met |-> FALSE,
        referral_reason |-> referral_reason,
        patient_name |-> patient_name,
        validation_status |-> "Referral reason does not meet criteria",
        acceptable_reasons |-> "Chest pain, abnormal stress test, arrhythmia, heart failure, valvular disease, syncope, resistant hypertension",
        recommendation |-> "Contact Dr. Reed's office to discuss referral appropriateness"]

\* A referral_reason argument: its text, and whether it is one of the
\* acceptable reasons.
Reason(text, acceptable) == [text |-> text, acceptable |-> acceptable]

Reasons ==
  { Reason(<<"C", "h", "e", "s", "t", " ", "p", "a", "i", "n">>, TRUE),
    Reason(<<"a", "b", "n", "o", "r", "m", "a", "l", " ", "s", "t", "r", "e", "s", "s", " ",
             "t", "e", "s", "t">>, TRUE),
    Reason(<<"A", "r", "r", "h", "y", "t", "h", "m", "i", "a">>, TRUE),
    Reason(<<"s", "y", "n", "c", "o", "p", "e">>, TRUE),
    Reason(<<"r", "e", "s", "i", "s", "t", "a", "n", "t", " ", "h", "y", "p", "e", "r", "t",
             "e", "n", "s", "i", "o", "n">>, TRUE),
    Reason(<<"v", "a", "l", "v", "u", "l", "a", "r", " ", "d", "i", "s", "e", "a", "s",
             "e">>, TRUE),
    Reason(<<"h", "e", "a", "r", "t", "b", "u", "r", "n">>, FALSE),
    Reason(<<"k", "n", "e", "e", " ", "p", "a", "i", "n">>, FALSE),
    Reason(<<"a", "n", "n", "u", "a", "l", " ", "p", "h", "y", "s", "i", "c", "a",
             "l">>, FALSE),
    Reason(<<>>, FALSE) }

\* A documentation_available argument: its text, and whether it says that
\* documentation is available.
Documentation(text, available) == [text |-> text, available |-> available]

Documentations ==
  { Documentation(<<"E", "C", "G", " ", "a", "n", "d", " ", "e", "c", "h", "o">>, TRUE),
    Documentation(<<"E", "K", "G", " ", "a", "t", "t", "a", "c", "h", "e", "d">>, TRUE),
    Documentation(<<"A", "v", "a", "i", "l", "a", "b", "l", "e">>, TRUE),
    Documentation(<<"l", "a", "b", "s", " ", "a", "t", "t", "a", "c", "h", "e", "d">>, TRUE),
    Documentation(<<"U", "n", "k", "n", "o", "w", "n">>, FALSE),
    Documentation(<<"N", "o", "n", "e">>, FALSE),
    Documentation(<<"N", "o", "t", " ", "a", "v", "a", "i", "l", "a", "b", "l", "e">>, FALSE),
    Documentation(<<>>, FALSE) }

\* ----------------------------------------------- get_agent_response

\* current_state.values.get('structured_response'): None, a ResponseFormat,
\* or a value of another class.
NoStructuredResponse == [class |-> "NoneType", status |-> "", message |-> ""]

ResponseFormat(status, message) ==
  [class |-> "ResponseFormat", status |-> status, message |-> message]

Statuses == {"input_required", "completed", "error"}

StructuredResponses ==
  {NoStructuredResponse}
  \cup {ResponseFormat(st, m) : st \in Statuses, m \in {"", "Done"}}
  \cup {[class |-> "dict", status |-> "completed", message |-> "Done"]}

\* last_ai_message: "" stands for None (content that is empty is skipped).
LastAiMessages == {"", "Your appointment is booked."}

AgentDict(complete, input, content) ==
  [is_task_complete |-> complete, require_user_input |-> input, content |-> content]

\* Variant: every status answers like 'input_required'.
StatusFlagsAllPending(status) == <<FALSE, TRUE>>

\* is_task_complete and require_user_input of the three status branches
StatusFlags(status) ==
  CASE status = "input_required" -> <<FALSE, TRUE>>
    [] status = "error" -> <<FALSE, TRUE>>
    [] status = "completed" -> <<TRUE, FALSE>>

Or(a, b) == IF a # "" THEN a ELSE b

get_agent_response(structured_response, last_ai_message) ==
  IF structured_response.class = "ResponseFormat"
       /\ structured_response.status \in Statuses
  THEN AgentDict(StatusFlags(structured_response.status)[1],
                 StatusFlags(structured_response.status)[2],
                 Or(last_ai_message, structured_response.message))
  ELSE IF last_ai_message # ""
  THEN AgentDict(FALSE, TRUE, last_ai_message)
  ELSE AgentDict(FALSE, TRUE,
                 "We are unable to process your request at the moment. Please try again.")

\* No call of a rule: the value of call and of returned between calls.
NoCall == [fn |-> "none"]

\* ------------------------------------------------- concurrent calls

\* Two schedule_appointment calls that run at the same time, each with its
\* own client, against one calendar.
Tasks == {1, 2}

\* The candidate slots of both calls: they are made on the same Monday, in
\* standard time.
RaceSlots == AvailableSlots(0, StandardTime)

\* The locals of one call: where it is, the position of its slot loop, the
\* result of its last calendar check, its selected slot (0 for None), and
\* whether its appointment was created.
TaskState(p, i, r, sel, c) ==
  [pc |-> p, slotIdx |-> i, response |-> r, selected_slot |-> sel, created |-> c]

IdleTask == TaskState("idle", 0, NoResult, 0, FALSE)

\* The events the calendar holds before the calls: none, a booking of the
\* first candidate slot, a cancelled one, and one that covers the first two
\* candidate slots.
Calendars ==
  LET s == RaceSlots[1].utc
  IN  { <<>>,
        <<Event(s, 1, FALSE, TRUE)>>,
        <<Event(s, 1, TRUE, TRUE)>>,
        <<Event(s, 2, FALSE, TRUE)>> }

\* The event the calendar holds for a created appointment.
CreatedEvent(a) == Event(a.startDateTimeUtc, a.duration, FALSE, TRUE)

\* ----------------------------------------------------------------- state

VARIABLES
  pc,            \* "idle", "send", "await", "sleep", "loop_exit", "resume"
  tool,          \* the tool body in progress, "none" for a direct client call
  args,          \* its arguments
  today,         \* weekday of datetime.now(eastern)
  tz,            \* the time zone data of the run: pytz or the fallback, the
                 \* Eastern offset now and the day it changes
  op,            \* the client operation in progress
  callee,        \* the operation whose retry loop runs (op, or its token refresh)
  attempt,       \* the loop variable
  wait_time,     \* argument of the pending asyncio.sleep
  sent,          \* HTTP requests of this operation call, per endpoint
  log,           \* requests, responses and sleeps of the running loop
  loopResult,    \* how the finished loop ended
  opResult,      \* how the finished operation ended
  toolReturn,    \* how the finished tool body ended
  access_token,  \* the local access_token of the operation call (0: unbound)
  reqToken,      \* the bearer token of the last Practice Fusion request
  tokenUses,     \* requests that carried the current access_token
  httpUsed,      \* whether this call has sent any HTTP request
  opSeq,         \* client operation calls started by this call
  available_slots,
  slotIdx,       \* position of the loop over available_slots
  selected_slot, \* index of the selected slot, 0 for None
  checks,        \* check_calendar_availability calls per slot index
  creates,       \* create_appointment calls of this tool call
  appointment_data, \* the body of the create_appointment request
  call,          \* the last call of a rule tool or of get_agent_response
  returned,      \* the dict it returned
  calendar,      \* the events of the calendar two concurrent calls run against
  task           \* the locals of each of the two concurrent calls

clientVars ==
  <<pc, tool, args, today, tz, op, callee, attempt, wait_time, sent, log, loopResult,
    opResult, toolReturn, access_token, reqToken, tokenUses, httpUsed, opSeq,
    available_slots, slotIdx, selected_slot, checks, creates, appointment_data>>

rulesVars == <<call, returned>>

raceVars == <<calendar, task>>

vars == <<clientVars, rulesVars, raceVars>>

toolVars == <<tool, args, today, tz, toolReturn, available_slots, slotIdx,
              selected_slot, checks, creates, appointment_data>>

ZeroSent == [e \in Endpoints |-> 0]

LogReq(a) == [ev |-> "req", attempt |-> a, kind |-> "", secs |-> 0]

LogResp(a, k) == [ev |-> "resp", attempt |-> a, kind |-> k, secs |-> 0]

LogSleep(a, w) == [ev |-> "sleep", attempt |-> a, kind |-> "", secs |-> w]

\* UTC hour of the slot under check (0 outside the slot loop)
SlotUtc ==
  IF slotIdx \in 1..Len(available_slots) THEN available_slots[slotIdx].utc ELSE 0

ClientInit ==
  /\ pc = "idle"
  /\ tool = "none"
  /\ args = NoArgs
  /\ today = 0
  /\ tz = StandardTime
  /\ op = "none"
  /\ callee = "none"
  /\ attempt = 0
  /\ wait_time = 0
  /\ sent = ZeroSent
  /\ log = <<>>
  /\ loopResult = NoResult
  /\ opResult = NoResult
  /\ toolReturn = NoReturn
  /\ access_token = 0
  /\ reqToken = 0
  /\ tokenUses = 0
  /\ httpUsed = FALSE
  /\ opSeq = 0
  /\ available_slots = <<>>
  /\ slotIdx = 0
  /\ selected_slot = 0
  /\ checks = <<>>
  /\ creates = 0
  /\ appointment_data = NoAppointment

\* Entry of client operation o: fresh locals, the token refresh first where
\* the operation has one, then its own loop.
EnterOp(o, seq) ==
  /\ op' = o
  /\ opSeq' = seq
  /\ callee' = IF NeedsToken(o) THEN "get_access_token" ELSE o
  /\ attempt' = 0
  /\ wait_time' = 0
  /\ sent' = ZeroSent
  /\ log' = <<>>
  /\ loopResult' = NoResult
  /\ opResult' = NoResult
  /\ access_token' = 0
  /\ reqToken' = 0
  /\ tokenUses' = 0
  /\ pc' = "send"

\* No client operation in progress.
LeaveOps ==
  /\ op' = "none"
  /\ opSeq' = 0
  /\ callee' = "none"
  /\ attempt' = 0
  /\ wait_time' = 0
  /\ sent' = ZeroSent
  /\ log' = <<>>
  /\ loopResult' = NoResult
  /\ opResult' = NoResult
  /\ access_token' = 0
  /\ reqToken' = 0
  /\ tokenUses' = 0

Init ==
  /\ ClientInit
  /\ call = NoCall
  /\ returned = NoCall
  /\ calendar = <<>>
  /\ task = [p \in Tasks |-> IdleTask]

\* A caller awaits client operation o directly.
CallClientOp ==
  /\ UNCHANGED <<rulesVars, raceVars>>
  /\ pc = "idle"
  /\ \E o \in ClientOps : EnterOp(o, 1)
  /\ tool' = "none"
  /\ args' = NoArgs
  /\ today' = 0
  /\ tz' = StandardTime
  /\ toolReturn' = NoReturn
  /\ httpUsed' = FALSE
  /\ available_slots' = <<>>
  /\ slotIdx' = 0
  /\ selected_slot' = 0
  /\ checks' = <<>>
  /\ creates' = 0
  /\ appointment_data' = NoAppointment

\* A tool body runs from its entry to its first await, or to its return
\* when validation fails; on a day of standard time with pytz installed, or
\* (anyDay) on any day of the year, with or without pytz.
CallToolOn(anyDay) ==
  /\ UNCHANGED <<rulesVars, raceVars>>
  /\ pc = "idle"
  /\ \E t \in Tools : \E a \in ArgsOf(t) :
     \E d \in (IF t = "schedule_appointment" THEN 0..6 ELSE {0}) :
     \E z \in (IF t # "schedule_appointment" THEN {StandardTime}
                ELSE IF anyDay THEN TzRuns(d) ELSE StandardRuns(d)) :
       /\ tool' = t
       /\ args' = a
       /\ today' = d
       /\ tz' = z
       /\ selected_slot' = 0
       /\ creates' = 0
       /\ appointment_data' = NoAppointment
       /\ httpUsed' = FALSE
       /\ LET slots == IF t = "schedule_appointment" /\ ~MissingRequired(t, a)
                       THEN AvailableSlots(d, z) ELSE <<>>
          IN  /\ available_slots' = slots
              /\ IF MissingRequired(t, a)
                 THEN /\ toolReturn' = ErrorDict(<<RequiredMsg(t)>>)
                      /\ slotIdx' = 0
                      /\ checks' = <<>>
                      /\ LeaveOps
                      /\ pc' = "idle"
                 ELSE IF t = "schedule_appointment" /\ slots = <<>>
                 THEN /\ toolReturn' =
                           ErrorDict(<<"No available slots found in the next 2 weeks">>)
                      /\ slotIdx' = 0
                      /\ checks' = <<>>
                      /\ LeaveOps
                      /\ pc' = "idle"
                 ELSE /\ toolReturn' = NoReturn
                      /\ slotIdx' = IF t = "schedule_appointment" THEN 1 ELSE 0
                      /\ checks' = [i \in 1..Len(slots) |-> IF i = 1 THEN 1 ELSE 0]
                      /\ EnterOp(FirstOp(t), 1)

\* A tool call on a day of standard time, with pytz installed.
CallTool == CallToolOn(FALSE)

\* A tool call on any day of the year, with or without pytz.
CallToolAnyDay == CallToolOn(TRUE)

\* await client.get / client.post of the running loop
Send ==
  /\ UNCHANGED <<rulesVars, raceVars>>
  /\ pc = "send"
  /\ sent[Endpoint(callee)] < MaxSent
  /\ sent' = [sent EXCEPT ![Endpoint(callee)] = @ + 1]
  /\ log' = Append(log, LogReq(attempt))
  /\ httpUsed' = TRUE
  /\ reqToken' = IF callee \in PFOps THEN access_token ELSE reqToken
  /\ tokenUses' = IF callee \in PFOps THEN tokenUses + 1 ELSE tokenUses
  /\ pc' = "await"
  /\ UNCHANGED <<op, callee, attempt, wait_time, loopResult, opResult, access_token,
                 opSeq>>
  /\ UNCHANGED toolVars

\* The response arrives and the loop body handles it.
Receive ==
  /\ UNCHANGED <<rulesVars, raceVars>>
  /\ pc = "await"
  /\ \E out \in Outcomes(callee, SlotUtc) :
       LET step == HandleResponse(callee, attempt, out, opSeq) IN
       /\ log' = Append(log, LogResp(attempt, out.kind))
       /\ IF step.next = "sleep"
          THEN /\ pc' = "sleep"
               /\ wait_time' = step.wait
               /\ loopResult' = loopResult
          ELSE /\ pc' = "loop_exit"
               /\ wait_time' = 0
               /\ loopResult' = step.result
  /\ UNCHANGED <<op, callee, attempt, sent, opResult, access_token, reqToken, tokenUses,
                 httpUsed, opSeq>>
  /\ UNCHANGED toolVars

\* await asyncio.sleep(wait_time), then the next iteration, or the raise
\* after the loop when the range is used up.
Sleep ==
  /\ UNCHANGED <<rulesVars, raceVars>>
  /\ pc = "sleep"
  /\ log' = Append(log, LogSleep(attempt, wait_time))
  /\ wait_time' = 0
  /\ attempt' = RangeNext(attempt)
  /\ IF RangeNext(attempt) < MaxRetries(callee)
     THEN /\ pc' = "send"
          /\ loopResult' = loopResult
     ELSE /\ pc' = "loop_exit"
          /\ loopResult' = Exhausted(callee)
  /\ UNCHANGED <<op, callee, sent, opResult, access_token, reqToken, tokenUses, httpUsed,
                 opSeq>>
  /\ UNCHANGED toolVars

\* get_access_token, awaited at the top of a Practice Fusion operation,
\* returned: the operation's own loop starts.
TokenRefreshed ==
  /\ UNCHANGED <<rulesVars, raceVars>>
  /\ pc = "loop_exit"
  /\ callee = "get_access_token" /\ op # "get_access_token"
  /\ loopResult.kind = "returned"
  /\ access_token' = loopResult.value.token
  /\ tokenUses' = 0
  /\ callee' = op
  /\ attempt' = 0
  /\ log' = <<>>
  /\ loopResult' = NoResult
  /\ pc' = "send"
  /\ UNCHANGED <<op, wait_time, sent, opResult, reqToken, httpUsed, opSeq>>
  /\ UNCHANGED toolVars

\* The operation ends: with the value its loop returned, or with the
\* exception that leaves it (from its loop or from the token refresh).
OpExit ==
  /\ UNCHANGED <<rulesVars, raceVars>>
  /\ pc = "loop_exit"
  /\ ~(callee = "get_access_token" /\ op # "get_access_token"
       /\ loopResult.kind = "returned")
  /\ opResult' = IF loopResult.kind = "returned"
                 THEN loopResult
                 ELSE Raised(Wrap(op, loopResult.exc))
  /\ pc' = IF tool = "none" THEN "idle" ELSE "resume"
  /\ UNCHANGED <<op, callee, attempt, wait_time, sent, log, loopResult, access_token,
                 reqToken, tokenUses, httpUsed, opSeq>>
  /\ UNCHANGED toolVars

opVars ==
  <<op, callee, attempt, wait_time, sent, log, loopResult, opResult, access_token,
    reqToken, tokenUses, opSeq>>

\* The tool body returns (or raises) r; its client and the client's
\* operation frames are gone.
ToolExit(r) ==
  /\ toolReturn' = r
  /\ pc' = "idle"
  /\ LeaveOps

\* _verify_provider_async after search_providers
ResumeVerifyProvider ==
  /\ UNCHANGED <<rulesVars, raceVars>>
  /\ pc = "resume"
  /\ tool = "verify_provider"
  /\ ToolExit(IF opResult.kind = "returned"
              THEN SuccessDict(tool)
              ELSE ToolCatch(tool, opResult.exc))
  /\ UNCHANGED <<tool, args, today, tz, httpUsed, available_slots, slotIdx,
                 selected_slot, checks, creates, appointment_data>>

\* _create_patient_async after client.create_patient
ResumeCreatePatient ==
  /\ UNCHANGED <<rulesVars, raceVars>>
  /\ pc = "resume"
  /\ tool = "create_patient"
  /\ ToolExit(IF opResult.kind = "returned"
              THEN SuccessDict(tool)
              ELSE ToolCatch(tool, opResult.exc))
  /\ UNCHANGED <<tool, args, today, tz, httpUsed, available_slots, slotIdx,
                 selected_slot, checks, creates, appointment_data>>

\* Variant: a slot loop without its except PracticeFusionError clause.
CheckVerdictNoCatch(r, s) ==
  IF r.kind = "raised" THEN "error" ELSE SlotConflicts(r.value.events, s)

\* What the body of the slot loop makes of a finished calendar check of the
\* slot at UTC hour s: "free" (select it), "conflict" or "skip" (the except
\* PracticeFusionError: continue), or "error" (an exception that leaves the
\* loop).
CheckVerdict(r, s) ==
  IF r.kind = "raised"
  THEN IF r.exc.type = "PracticeFusionError" THEN "skip" ELSE "error"
  ELSE SlotConflicts(r.value.events, s)

\* The exception that leaves the slot loop on verdict "error".
CheckError(r) ==
  IF r.kind = "raised" THEN r.exc ELSE Exc("KeyError", "startDateTimeUtc", 0)

\* Variant: a loop that steps over every other slot.
NextSlotIdxSkipping(i) == i + 2

\* for slot in available_slots: the next position
NextSlotIdx(i) == i + 1

\* Variant: a loop body without its break.
BreaksNever(verdict) == FALSE

\* Whether the loop body ends with break: when the slot has no conflict.
Breaks(verdict) == verdict = "free"

\* _schedule_appointment_async after client.check_calendar_availability:
\* the rest of the loop body, then the next check, the appointment creation,
\* or the return.
ResumeCalendarCheck ==
  /\ UNCHANGED <<rulesVars, raceVars>>
  /\ pc = "resume"
  /\ tool = "schedule_appointment"
  /\ op = "check_calendar_availability"
  /\ LET verdict == CheckVerdict(opResult, SlotUtc)
         selected == IF verdict = "free" THEN slotIdx ELSE selected_slot
         next == NextSlotIdx(slotIdx)
     IN  IF verdict = "error"
         THEN /\ ToolExit(ToolCatch(tool, CheckError(opResult)))
              /\ UNCHANGED <<selected_slot, creates, appointment_data, slotIdx, checks>>
         ELSE IF ~Breaks(verdict) /\ next \in 1..Len(available_slots)
         THEN /\ slotIdx' = next
              /\ selected_slot' = selected
              /\ checks' = [checks EXCEPT ![next] = @ + 1]
              /\ EnterOp("check_calendar_availability", opSeq + 1)
              /\ UNCHANGED <<toolReturn, creates, appointment_data>>
         ELSE IF selected = 0
         THEN /\ ToolExit(ErrorDict(<<"No available slots found without conflicts">>))
              /\ UNCHANGED <<selected_slot, creates, appointment_data, slotIdx, checks>>
         ELSE /\ selected_slot' = selected
              /\ creates' = creates + 1
              /\ appointment_data' = AppointmentData(available_slots[selected])
              /\ EnterOp("create_appointment", opSeq + 1)
              /\ UNCHANGED <<toolReturn, slotIdx, checks>>
  /\ UNCHANGED <<tool, args, today, tz, httpUsed, available_slots>>

\* _schedule_appointment_async after client.create_appointment
ResumeCreateAppointment ==
  /\ UNCHANGED <<rulesVars, raceVars>>
  /\ pc = "resume"
  /\ tool = "schedule_appointment"
  /\ op = "create_appointment"
  /\ ToolExit(IF opResult.kind = "returned"
              THEN SuccessDict(tool)
              ELSE ToolCatch(tool, opResult.exc))
  /\ UNCHANGED <<tool, args, today, tz, httpUsed, available_slots, slotIdx,
                 selected_slot, checks, creates, appointment_data>>

\* Everything but the start of a call.
Progress ==
  \/ Send
  \/ Receive
  \/ Sleep
  \/ TokenRefreshed
  \/ OpExit
  \/ ResumeVerifyProvider
  \/ ResumeCreatePatient
  \/ ResumeCalendarCheck
  \/ ResumeCreateAppointment

Next ==
  \/ CallClientOp
  \/ CallTool
  \/ Send
  \/ Receive
  \/ Sleep
  \/ TokenRefreshed
  \/ OpExit
  \/ ResumeVerifyProvider
  \/ ResumeCreatePatient
  \/ ResumeCalendarCheck
  \/ ResumeCreateAppointment

Spec == Init /\ [][Next]_vars

\* The same calls on any day of the year.
NextAnyDay ==
  \/ CallClientOp
  \/ CallToolAnyDay
  \/ Send
  \/ Receive
  \/ Sleep
  \/ TokenRefreshed
  \/ OpExit
  \/ ResumeVerifyProvider
  \/ ResumeCreatePatient
  \/ ResumeCalendarCheck
  \/ ResumeCreateAppointment

AnyDaySpec == Init /\ [][NextAnyDay]_vars

\* The event loop runs a ready coroutine, a sleep ends, and every request
\* ends with a response or, by the client's timeout, with a RequestError.
LiveSpec == Spec /\ WF_vars(Progress)

\* ------------------------------------------------ the rule tools

\* verify_insurance_coverage is called and returns.
VerifyInsuranceCoverage ==
  /\ \E p \in Providers, m \in MemberIds :
       /\ call' = [fn |-> "verify_insurance_coverage", insurance_provider |-> p,
                   member_id |-> m]
       /\ returned' = verify_insurance_coverage(p.text, "Ann Lee", m)
  /\ UNCHANGED <<clientVars, raceVars>>

\* validate_clinical_criteria is called and returns.
ValidateClinicalCriteria ==
  /\ \E r \in Reasons, d \in Documentations :
       /\ call' = [fn |-> "validate_clinical_criteria", referral_reason |-> r,
                   documentation_available |-> d]
       /\ returned' = validate_clinical_criteria(r.text, "Ann Lee", d.text)
  /\ UNCHANGED <<clientVars, raceVars>>

\* GenericAgent.get_agent_response is called and returns.
GetAgentResponse ==
  /\ \E sr \in StructuredResponses, m \in LastAiMessages :
       /\ call' = [fn |-> "get_agent_response", structured_response |-> sr,
                   last_ai_message |-> m]
       /\ returned' = get_agent_response(sr, m)
  /\ UNCHANGED <<clientVars, raceVars>>

RulesNext ==
  \/ VerifyInsuranceCoverage
  \/ ValidateClinicalCriteria
  \/ GetAgentResponse

RulesSpec == Init /\ [][RulesNext]_vars

\* ------------------------------------------------ concurrent calls

\* UTC hour of the slot under check of call p
TaskSlotUtc(p) == RaceSlots[task[p].slotIdx].utc

\* Call p starts: its slots are built and its first calendar check is
\* awaited.
TaskCall(p) ==
  /\ UNCHANGED <<clientVars, rulesVars>>
  /\ task[p].pc = "idle"
  /\ task' = [task EXCEPT ![p] = TaskState("check", 1, NoResult, 0, FALSE)]
  /\ UNCHANGED calendar

\* The calendar check of call p ends: the server answers with the events it
\* holds, or the check raises a PracticeFusionError.
TaskCheck(p) ==
  /\ UNCHANGED <<clientVars, rulesVars>>
  /\ task[p].pc = "check"
  /\ \E r \in {Returned(CalendarValue(calendar)),
               Raised(Exc("PracticeFusionError",
                          ExhaustedMsg("check_calendar_availability"), 0))} :
       task' = [task EXCEPT ![p].pc = "loop", ![p].response = r]
  /\ UNCHANGED calendar

\* The rest of the loop body of call p, then its next check, its
\* create_appointment, or its return.
TaskLoop(p) ==
  /\ UNCHANGED <<clientVars, rulesVars>>
  /\ task[p].pc = "loop"
  /\ LET verdict == CheckVerdict(task[p].response, TaskSlotUtc(p))
         selected == IF verdict = "free" THEN task[p].slotIdx
                     ELSE task[p].selected_slot
         next == NextSlotIdx(task[p].slotIdx)
     IN  IF verdict = "error"
         THEN task' = [task EXCEPT ![p].pc = "returned"]
         ELSE IF ~Breaks(verdict) /\ next \in 1..Len(RaceSlots)
         THEN task' = [task EXCEPT ![p].pc = "check", ![p].slotIdx = next,
                                   ![p].selected_slot = selected]
         ELSE IF selected = 0
         THEN task' = [task EXCEPT ![p].pc = "returned"]
         ELSE task' = [task EXCEPT ![p].pc = "create", ![p].selected_slot = selected]
  /\ UNCHANGED calendar

\* create_appointment of call p ends: the server stores the appointment, or
\* the call raises a PracticeFusionError.
TaskCreate(p) ==
  /\ UNCHANGED <<clientVars, rulesVars>>
  /\ task[p].pc = "create"
  /\ \/ /\ calendar' =
             Append(calendar,
                    CreatedEvent(AppointmentData(RaceSlots[task[p].selected_slot])))
        /\ task' = [task EXCEPT ![p].pc = "returned", ![p].created = TRUE]
     \/ /\ task' = [task EXCEPT ![p].pc = "returned"]
        /\ UNCHANGED calendar

RaceInit ==
  /\ ClientInit
  /\ call = NoCall
  /\ returned = NoCall
  /\ calendar \in Calendars
  /\ task = [p \in Tasks |-> IdleTask]

RaceNext ==
  \/ \E p \in Tasks : TaskCall(p)
  \/ \E p \in Tasks : TaskCheck(p)
  \/ \E p \in Tasks : TaskLoop(p)
  \/ \E p \in Tasks : TaskCreate(p)

RaceSpec == RaceInit /\ [][RaceNext]_vars

\* ------------------------------------------------------------ properties

\* Positions of the log that hold a response of one of the kinds ks.
RespAt(ks) == {i \in 1..Len(log) : log[i].ev = "resp" /\ log[i].kind \in ks}

Retryable == {"rate_limited", "conn_error"}

LoopEnded == pc \in {"loop_exit", "resume", "idle"}

\* C1: one call of a client operation sends at most max_retries (3) HTTP
\* requests to the operation's own endpoint (and as many to the token
\* endpoint), whatever the server answers; 429 answers and connection
\* errors are counted against the same budget of attempts.
C1_AttemptBudget ==
  op # "none" =>
    /\ sent[Endpoint(op)] <= 3
    /\ sent["oauth2/token"] <= 3
    /\ callee # "none" => Cardinality(RespAt(Retryable)) <= 3
    /\ \A i \in 1..Len(log) : log[i].attempt \in 0..2

\* A call that used its whole budget on a mix of 429s and connection errors.
C1_Witness ==
  /\ op \in PFOps /\ callee = op /\ pc = "loop_exit"
  /\ sent[Endpoint(op)] = 3
  /\ RespAt({"rate_limited"}) # {}
  /\ RespAt({"conn_error"}) # {}
  /\ Cardinality(RespAt(Retryable)) = 3

TwoTo(a) == CASE a = 0 -> 1 [] a = 1 -> 2 [] a = 2 -> 4 [] OTHER -> 0

\* C2: after a 429 on the attempt with index a the very next thing the loop
\* does is a sleep of 2^a seconds (1, 2, 4), whatever the earlier attempts
\* got; a later request of the loop therefore comes after that sleep.
C2_RateLimitBackoff ==
  \A i \in RespAt({"rate_limited"}) :
    /\ i < Len(log) => log[i + 1] = LogSleep(log[i].attempt, TwoTo(log[i].attempt))
    /\ i = Len(log) => pc = "sleep" /\ wait_time = TwoTo(log[i].attempt)

\* A connection error on attempt 0 (1 s), then 429s on attempts 1 and 2,
\* which wait 2 s and 4 s.
C2_Witness ==
  /\ Len(log) = 9
  /\ log[2] = LogResp(0, "conn_error")
  /\ log[5] = LogResp(1, "rate_limited") /\ log[6] = LogSleep(1, 2)
  /\ log[7] = LogReq(2)
  /\ log[8] = LogResp(2, "rate_limited") /\ log[9] = LogSleep(2, 4)

\* C3: a connection error on attempt a < max_retries - 1 is followed by a
\* sleep of a + 1 seconds and then by the next request; on the last attempt
\* (a = max_retries - 1) the loop does not sleep and raises the client's
\* error "Unable to connect to ...".
C3_ConnectionBackoff ==
  \A i \in RespAt({"conn_error"}) :
    LET a == log[i].attempt IN
    IF a < 2
    THEN /\ i < Len(log) => log[i + 1] = LogSleep(a, a + 1)
         /\ i + 1 < Len(log) => log[i + 2] = LogReq(a + 1)
         /\ i = Len(log) => pc = "sleep" /\ wait_time = a + 1
    ELSE /\ i = Len(log)
         /\ LoopEnded
         /\ loopResult.kind = "raised"
         /\ loopResult.exc.type =
              (IF callee = "search_providers"
               THEN "ProviderVerificationError" ELSE "PracticeFusionError")
         /\ loopResult.exc.msg =
              (IF callee = "search_providers"
               THEN "Unable to connect to NPPES API"
               ELSE "Unable to connect to Practice Fusion API")

\* Three connection errors: sleeps of 1 s and 2 s, then the raise.
C3_Witness ==
  /\ Len(log) = 8
  /\ log[3] = LogSleep(0, 1) /\ log[6] = LogSleep(1, 2)
  /\ log[8] = LogResp(2, "conn_error")
  /\ loopResult.kind = "raised"
  /\ loopResult.exc.msg = "Unable to connect to Practice Fusion API"

\* C4: a retry loop goes round again only after a 429 or a connection
\* error.  The first attempt that succeeds (a 2xx response with a usable
\* body) ends the loop by returning what was parsed from the response, and
\* the first attempt that gets another error status ends it by raising the
\* client's error with that status code; after either, the loop sends no
\* request and sleeps no more.
C4_RetryOnlyWhenRetryable ==
  /\ \A i \in 1..Len(log) :
       log[i].ev = "req" /\ log[i].attempt > 0 =>
         /\ i > 3
         /\ log[i - 1].ev = "sleep"
         /\ log[i - 2].ev = "resp" /\ log[i - 2].kind \in Retryable
  /\ \A i \in RespAt({"ok", "http_error"}) :
       /\ i = Len(log)
       /\ pc \notin {"send", "await", "sleep"}
       /\ wait_time = 0
  /\ \A i \in RespAt({"ok"}) :
       /\ LoopEnded => loopResult.kind = "returned"
       /\ LoopEnded /\ callee = op => opResult.kind \in {"none", "returned"}
       /\ pc \in {"resume", "idle"} /\ callee = op =>
            /\ opResult = loopResult
            /\ opResult.value.kind =
                 (CASE op = "get_access_token" -> "token"
                    [] op = "check_calendar_availability" -> "calendar"
                    [] OTHER -> "body")
  /\ \A i \in RespAt({"http_error"}) :
       LoopEnded =>
         /\ loopResult.kind = "raised"
         /\ loopResult.exc.status \in ErrorStatuses
         /\ loopResult.exc.type =
              (IF callee = "search_providers"
               THEN "ProviderVerificationError" ELSE "PracticeFusionError")
         /\ pc \in {"resume", "idle"} => opResult = loopResult

\* create_appointment: a 429, then a 500 that ends the call at once.
C4_Witness ==
  /\ op = "create_appointment" /\ callee = op
  /\ Len(log) = 5
  /\ log[2] = LogResp(0, "rate_limited")
  /\ log[5] = LogResp(1, "http_error")
  /\ opResult.kind = "raised" /\ opResult.exc.status = 500
  /\ sent[Endpoint(op)] = 2

\* A call has ended and its result is there.
CallEnded ==
  /\ pc = "idle"
  /\ tool = "none" => opResult.kind # "none"
  /\ tool # "none" => toolReturn.kind # "none"

\* C5: every call ends, whatever the servers answer: a started call
\* eventually returns or raises.  A schedule_appointment call makes at most
\* one calendar check per candidate slot and at most one create_appointment
\* call, which comes last.
C5_Terminates ==
  /\ [](\A i \in DOMAIN checks : checks[i] <= 1)
  /\ [](creates <= 1)
  /\ [](creates = 1 => pc = "idle" \/ op = "create_appointment")
  /\ (pc # "idle") ~> CallEnded

\* A schedule_appointment call that checked every slot once, booked the
\* last one and returned.
C5_Witness ==
  /\ tool = "schedule_appointment" /\ pc = "idle"
  /\ toolReturn.kind = "returned" /\ toolReturn.success
  /\ Len(available_slots) >= 4
  /\ selected_slot = Len(available_slots)
  /\ \A i \in DOMAIN checks : checks[i] = 1
  /\ creates = 1

\* C6: search_providers fails only with ProviderVerificationError and
\* get_access_token only with PracticeFusionError, however the request
\* fails (error status, connection error, retries used up, unreadable
\* response body).
C6_DeclaredErrorOnly ==
  /\ op = "search_providers" /\ opResult.kind = "raised" =>
       opResult.exc.type = "ProviderVerificationError"
  /\ op = "get_access_token" /\ opResult.kind = "raised" =>
       opResult.exc.type = "PracticeFusionError"

\* C7: create_patient, get_users, get_facilities,
\* check_calendar_availability and create_appointment raise only
\* PracticeFusionError: one raised inside them, the token refresh included,
\* leaves unchanged; any other exception leaves as
\* PracticeFusionError("Unexpected error: ...").
C7_OnlyPracticeFusionError ==
  op \in PFOps =>
    /\ pc \in {"resume", "idle"} /\ loopResult.kind = "raised" =>
         opResult.kind = "raised"
    /\ opResult.kind = "raised" =>
         /\ opResult.exc.type = "PracticeFusionError"
         /\ loopResult.kind = "raised"
         /\ loopResult.exc.type = "PracticeFusionError" => opResult.exc = loopResult.exc
         /\ loopResult.exc.type # "PracticeFusionError" =>
              opResult.exc = Exc("PracticeFusionError", "Unexpected error", 0)

\* The token refresh of create_patient got a 500: its PracticeFusionError
\* leaves create_patient as it is.
C7_Witness ==
  /\ op = "create_patient" /\ callee = "get_access_token"
  /\ opResult = Raised(Exc("PracticeFusionError", "Token API error", 500))
  /\ sent[Endpoint(op)] = 0

C9_ToolsNeverRaise ==
  /\ toolReturn.kind # "raised"
  /\ tool # "none" /\ pc = "idle" =>
       /\ toolReturn.kind = "returned"
       /\ "success" \in toolReturn.keys
       /\ toolReturn.success \in BOOLEAN
       /\ ("error" \in toolReturn.keys) <=> ~toolReturn.success
       /\ ("error" \in toolReturn.keys) <=> (toolReturn.error # <<>>)

\* A calendar response with an event that has no start time: the KeyError
\* ends schedule_appointment with the 'unexpected error' dict.
C9_Witness ==
  /\ tool = "schedule_appointment" /\ pc = "idle"
  /\ toolReturn.kind = "returned" /\ ~toolReturn.success
  /\ toolReturn.error = <<"An unexpected error occurred during appointment scheduling">>

\* C10: with a required argument empty, the tool returns success = false
\* with its 'required' error and sends no HTTP request, no token refresh
\* either.
C10_RequiredArguments ==
  tool # "none" /\ (\E n \in RequiredArgs(tool) : args[n] = "") =>
    /\ pc = "idle"
    /\ toolReturn = ErrorDict(<<RequiredMsg(tool)>>)
    /\ ~httpUsed
    /\ \A e \in Endpoints : sent[e] = 0
    /\ opSeq = 0 /\ op = "none"

\* schedule_appointment without the patient practice GUID.
C10_Witness ==
  /\ tool = "schedule_appointment"
  /\ args["patient_practice_guid"] = ""
  /\ \A n \in RequiredArgs(tool) \ {"patient_practice_guid"} : args[n] = "Ann"
  /\ pc = "idle" /\ ~toolReturn.success /\ ~httpUsed

\* C11: every appointment that schedule_appointment creates starts on a
\* Monday to Friday between 1 and LookAheadDays days after today, on a full
\* hour from FirstSlotHour to LastSlotHour Eastern time, and lasts exactly
\* one hour.
C11_WithinBusinessHours ==
  creates > 0 =>
    LET start == EasternTime(tz, appointment_data.startDateTimeUtc)
        day == start \div 24
        hour == start % 24
    IN  /\ day \in 1..LookAheadDays
        /\ (today + day) % 7 < 5
        /\ hour \in FirstSlotHour..LastSlotHour
        /\ appointment_data.duration = 1

\* The slot loop of schedule_appointment has a finished calendar check at hand.
AtCheckResult ==
  pc = "resume" /\ tool = "schedule_appointment" /\ op = "check_calendar_availability"

\* The interval [s, s + 1h) and the interval [start, start + duration) of a
\* non-cancelled event of evs have a moment in common.
OverlapsLiveEvent(evs, s) ==
  \E i \in 1..Len(evs) :
    /\ ~evs[i].cancelled
    /\ evs[i].wellFormed
    /\ s * 3600 < ((evs[i].start + evs[i].hours) * 3600) + (evs[i].minutes * 60)
                    + evs[i].seconds
    /\ (s + 1) * 3600 > evs[i].start * 3600

\* The slot under check is blocked: its check failed, or it overlaps a
\* non-cancelled event of the response.
SlotBlocked ==
  opResult.kind = "raised" \/ OverlapsLiveEvent(opResult.value.events, SlotUtc)

\* C12: schedule_appointment books the chronologically earliest candidate
\* slot whose calendar check succeeded and showed no conflict: the candidates
\* are in chronological order, they are checked one by one from the first
\* on, the loop moves past a slot only when the slot is blocked (its check
\* failed or it overlaps a non-cancelled event), and the slot selected is
\* the one whose check has just returned without a conflict.
C12_EarliestFreeSlot ==
  /\ [](\A i, j \in 1..Len(available_slots) :
          i < j => available_slots[i].utc < available_slots[j].utc)
  /\ [](tool = "schedule_appointment" /\ slotIdx > 0 =>
          \A j \in 1..Len(available_slots) : checks[j] = (IF j <= slotIdx THEN 1 ELSE 0))
  /\ [](selected_slot # 0 => selected_slot = slotIdx)
  /\ [][AtCheckResult =>
          /\ slotIdx' # slotIdx => slotIdx' = slotIdx + 1 /\ SlotBlocked
          /\ selected_slot' # selected_slot =>
               /\ selected_slot' = slotIdx
               /\ opResult.kind = "returned"
               /\ SlotConflicts(opResult.value.events, SlotUtc) = "free"]_vars

\* An appointment was created for the third or a later candidate slot.
C12_Witness ==
  /\ tool = "schedule_appointment"
  /\ pc = "idle"
  /\ toolReturn.success
  /\ selected_slot >= 3

\* C13: a slot is treated as conflicting exactly when the calendar response
\* for it has a non-cancelled event whose interval [start, start + duration)
\* overlaps [s, s + 1h): whenever a check returns a response whose events can
\* be read, the slot is booked if and only if it overlaps no non-cancelled
\* event of that response.
C13_ConflictExactlyOnOverlap ==
  [][AtCheckResult /\ opResult.kind = "returned"
       /\ (\A i \in 1..Len(opResult.value.events) :
             opResult.value.events[i].wellFormed)
     => (creates' = creates + 1 /\ selected_slot' = slotIdx
           <=> ~OverlapsLiveEvent(opResult.value.events, SlotUtc))]_vars

\* C14: within one schedule_appointment call the calendar checks are issued
\* one at a time in chronological slot order (a check starts only when the
\* check of the slot before it has returned or failed), no calendar check is
\* issued after a conflict-free slot has been found, and create_appointment
\* is called only when the check of the selected slot has returned.
C14_SequentialChecks ==
  /\ [](tool = "schedule_appointment" /\ selected_slot # 0 /\ pc # "idle" =>
          op = "create_appointment")
  /\ [](creates <= 1)
  /\ [][pc # "idle" /\ checks' # checks =>
          /\ AtCheckResult
          /\ opResult.kind \in {"returned", "raised"}
          /\ selected_slot = 0
          /\ slotIdx' = slotIdx + 1
          /\ checks' = [checks EXCEPT ![slotIdx + 1] = 1]
          /\ available_slots[slotIdx + 1].utc > available_slots[slotIdx].utc
          /\ op' = "check_calendar_availability"]_vars
  /\ [][creates' = creates + 1 =>
          /\ AtCheckResult
          /\ opResult.kind = "returned"
          /\ selected_slot' = slotIdx
          /\ op' = "create_appointment"]_vars

\* The appointment request of a call is about to be sent after the checks of
\* two slots.
C14_Witness ==
  /\ tool = "schedule_appointment"
  /\ op = "create_appointment"
  /\ callee = "create_appointment"
  /\ pc = "send"
  /\ selected_slot = 2
  /\ checks[1] = 1
  /\ checks[2] = 1

NoSlotsMsg == <<"No available slots found without conflicts">>

\* C15: when the last candidate slot is blocked too (its check fails, for
\* whatever reason the API or the token refresh gives, or its response shows
\* a conflict), and so no candidate slot has passed its check,
\* schedule_appointment returns success = false with "No available slots
\* found without conflicts"; a call with that result has checked every slot
\* and has sent no appointment-creation request, which only a call that
\* selected a slot sends.
C15_NoSlotsResult ==
  /\ [][AtCheckResult /\ slotIdx = Len(available_slots)
          /\ (\/ opResult.kind = "raised"
              \/ /\ opResult.kind = "returned"
                 /\ SlotConflicts(opResult.value.events, SlotUtc) = "conflict")
        => /\ pc' = "idle"
           /\ toolReturn'.kind = "returned"
           /\ ~toolReturn'.success
           /\ toolReturn'.error = NoSlotsMsg
           /\ creates' = 0]_vars
  /\ [](tool = "schedule_appointment" /\ toolReturn.error = NoSlotsMsg =>
          /\ creates = 0
          /\ selected_slot = 0
          /\ \A j \in 1..Len(available_slots) : checks[j] = 1)
  /\ [](tool = "schedule_appointment" /\ callee = "create_appointment" =>
          creates = 1 /\ selected_slot # 0)
  /\ [](tool = "schedule_appointment" /\ creates = 0 =>
          sent[Endpoint("create_appointment")] = 0)

\* A call over four candidate slots has returned "No available slots found
\* without conflicts".
C15_Witness ==
  /\ tool = "schedule_appointment"
  /\ pc = "idle"
  /\ toolReturn.kind = "returned"
  /\ ~toolReturn.success
  /\ toolReturn.error = NoSlotsMsg
  /\ Len(available_slots) >= 4
  /\ slotIdx = Len(available_slots)
  /\ creates = 0

\* The value of key k of dict d, "" when d has no such key.
Field(d, k) == IF k \in DOMAIN d THEN d[k] ELSE ""

\* C16: verify_insurance_coverage reports insurance_accepted = true only for
\* the accepted insurers United Healthcare, Aetna, Cigna, Blue Cross Blue
\* Shield (BCBS) and Kaiser, and false for every other insurance provider;
\* the result always has success = true, and "next_step" is present only
\* when the insurance is accepted.
C16_AcceptedInsurersOnly ==
  call.fn = "verify_insurance_coverage" =>
    /\ returned.success
    /\ returned.insurance_accepted <=>
         call.insurance_provider.insurer \in AcceptedInsurers
    /\ "next_step" \in DOMAIN returned <=> returned.insurance_accepted

\* C17: validate_clinical_criteria reports clinical_criteria_met = true,
\* with next_step "Proceed to appointment scheduling", if and only if the
\* referral reason is one of the acceptable reasons and documentation is
\* available; a valid reason without documentation yields "Missing required
\* documentation", and an invalid reason yields "Referral reason does not
\* meet criteria" whatever the documentation is.
C17_ClinicalCriteria ==
  call.fn = "validate_clinical_criteria" =>
    LET valid == call.referral_reason.acceptable
        documented == call.documentation_available.available
    IN  /\ returned.clinical_criteria_met <=> valid /\ documented
        /\ returned.clinical_criteria_met <=>
             Field(returned, "next_step") = "Proceed to appointment scheduling"
        /\ valid /\ ~documented =>
             Field(returned, "documentation_status") = "Missing required documentation"
        /\ ~valid =>
             Field(returned, "validation_status")
               = "Referral reason does not meet criteria"

\* C18: the final response of get_agent_response has is_task_complete = true
\* if and only if the structured response is a ResponseFormat with status
\* "completed"; in every other case it has is_task_complete = false and
\* require_user_input = true, so exactly one of the two flags is true.
C18_CompleteIffCompleted ==
  call.fn = "get_agent_response" =>
    /\ returned.is_task_complete <=>
         /\ call.structured_response.class = "ResponseFormat"
         /\ call.structured_response.status = "completed"
    /\ ~returned.is_task_complete => returned.require_user_input
    /\ returned.is_task_complete # returned.require_user_input

\* get_agent_response has answered a ResponseFormat with status "completed".
C18_Witness ==
  /\ call.fn = "get_agent_response"
  /\ call.structured_response = ResponseFormat("completed", "Done")
  /\ call.last_ai_message = ""
  /\ returned = AgentDict(TRUE, FALSE, "Done")

\* The start times of the appointments the concurrent calls have created.
CreatedStart(p) == RaceSlots[task[p].selected_slot].utc

====
